---- MODULE Spec2Model ----
(***************************************************************************)
(* Model of wpilib/src/robot_base.rs: the process-wide ROBOT_INITED guard, *)
(* RobotBase::new, Drop for RobotBase and the static telemetry accessors.   *)
(* Every thread of the process runs construction attempts, drops handles   *)
(* it owns and calls accessors; the HAL is the environment and its return  *)
(* values are inputs.                                                      *)
(***************************************************************************)
EXTENDS Integers, Sequences, FiniteSets, TLC

\* ---- bounds ----
\* threads of the process
NumThreads == 3
\* construction attempts started in the process, over all threads
MaxAttempts == 3

Threads == 1..NumThreads

\* ---- program constants ----
\* first argument of HAL_Initialize in RobotBase::new
HalInitTimeout == 500
\* second argument of HAL_Initialize in RobotBase::new
HalInitMode == 0

\* values HAL_Initialize can return (HAL_Bool: zero is failure)
HalInitReturns == {0, 1}
\* how the scope owning a handle can end
ExitPaths == {"normal", "early", "unwind"}

VARIABLES
  ROBOT_INITED,   \* static ROBOT_INITED: AtomicBool
  pc,             \* pc[t]: where thread t is inside RobotBase::new
  log,            \* log[t]: what thread t has seen happen, oldest first
  handles,        \* handles[t]: RobotBase values owned by thread t
  winner,         \* threads whose compare_and_swap changed false to true
  halInitLog,     \* the calls of HAL_Initialize, oldest first
  halReleaseCalls,\* number of calls of HAL_ReleaseDSMutex
  usageReports,   \* outcomes of usage::report, oldest first
  lastRead,       \* the latest telemetry accessor call and what it returned
  lastDs          \* the latest make_ds call and how it ended

vars == <<ROBOT_INITED, pc, log, handles, winner, halInitLog,
          halReleaseCalls, usageReports, lastDs>>
allvars == <<ROBOT_INITED, pc, log, handles, winner, halInitLog,
             halReleaseCalls, usageReports, lastRead, lastDs>>

\* compare_and_swap reporting whether it stored, as compare_exchange(..).is_ok()
\* does, instead of the previous value
compare_and_swap_is_ok(cur, current, new) ==
  [ret |-> (cur = current), cell |-> IF cur = current THEN new ELSE cur]

\* AtomicBool::compare_and_swap(current, new, order) on a cell holding cur:
\* one atomic read-modify-write; returns the previous value.
compare_and_swap(cur, current, new) ==
  [ret |-> cur, cell |-> IF cur = current THEN new ELSE cur]

\* construction attempts thread t has started
Attempts(t) ==
  Cardinality({i \in 1..Len(log[t]) : log[t][i][1] = "new"})
    + (IF pc[t] = "idle" THEN 0 ELSE 1)


\* ---- unsigned integers wider than the checker's, as little-endian bytes ----
\* x without its high zero bytes
RECURSIVE Trim(_)
Trim(x) ==
  IF x = <<>> THEN <<>>
  ELSE IF x[Len(x)] = 0 THEN Trim(SubSeq(x, 1, Len(x) - 1)) ELSE x

\* the natural number n < 2^31 as bytes
RECURSIVE ToBytes(_)
ToBytes(n) == IF n = 0 THEN <<>> ELSE <<n % 256>> \o ToBytes(n \div 256)

\* x padded with zero bytes, or cut, to n bytes: the value modulo 2^(8n)
Width(x, n) == [i \in 1..n |-> IF i <= Len(x) THEN x[i] ELSE 0]

\* x * m + carry, for m < 2^23
RECURSIVE MulBytes(_, _, _)
MulBytes(x, m, carry) ==
  IF x = <<>>
    THEN ToBytes(carry)
    ELSE LET p == Head(x) * m + carry
         IN  <<p % 256>> \o MulBytes(Tail(x), m, p \div 256)

\* x + y + carry
RECURSIVE AddBytes(_, _, _)
AddBytes(x, y, carry) ==
  IF x = <<>> /\ y = <<>>
    THEN ToBytes(carry)
    ELSE LET a == IF x = <<>> THEN 0 ELSE Head(x)
             b == IF y = <<>> THEN 0 ELSE Head(y)
             s == a + b + carry
         IN  <<s % 256>> \o AddBytes(IF x = <<>> THEN x ELSE Tail(x),
                                     IF y = <<>> THEN y ELSE Tail(y),
                                     s \div 256)

\* quotient (as wide as x) and remainder of x by d, for d < 2^23
RECURSIVE DivBytes(_, _)
DivBytes(x, d) ==
  IF x = <<>>
    THEN [q |-> <<>>, r |-> 0]
    ELSE LET hi  == DivBytes(Tail(x), d)
             cur == hi.r * 256 + Head(x)
         IN  [q |-> <<cur \div d>> \o hi.q, r |-> cur % d]

\* ---- telemetry ----
\* hal_call!: run the HAL query with a status out-parameter; status zero
\* gives the value, any other status gives a HalError carrying it
hal_call(raw, status) ==
  IF status = 0 THEN <<"Ok", raw>> ELSE <<"Err", status>>

\* std::time::Duration::new(secs, nanos): nanoseconds of a second or more
\* carry into the seconds; a seconds overflow panics
Duration_new(secs, nanos) ==
  LET thousands == DivBytes(nanos, 1000)
      billions  == DivBytes(thousands.q, 1000000)
      total     == Trim(AddBytes(secs, billions.q, 0))
  IN  IF Len(total) > 8
        THEN <<"Panic">>
        ELSE <<"Ok", [secs |-> total,
                      nanos |-> billions.r * 1000 + thousands.r]>>

\* fpga_version: the HAL's i32 as it is
fpga_version_ret(raw, status) == hal_call(raw, status)

\* fpga_revision: the HAL's i64 as it is
fpga_revision_ret(raw, status) == hal_call(raw, status)

\* fpga_time: the HAL's u64 as it is
fpga_time_ret(raw, status) == hal_call(raw, status)

\* nsec_of without the multiplication by 1000: microseconds kept as they are
nsec_of_unscaled(usec) ==
  LET rem  == DivBytes(usec, 1000000).r
  IN  [val |-> Width(ToBytes(rem), 4), overflow |-> FALSE]

\* the products of the u32 multiplication on line 116: the value a build
\* without overflow checks keeps, and whether the product left 32 bits
nsec_of(usec) ==
  LET rem  == DivBytes(usec, 1000000).r
      low  == Width(ToBytes(rem), 4)
      wide == Trim(MulBytes(low, 1000, 0))
  IN  [val |-> Width(wide, 4), overflow |-> Len(wide) > 4]

\* fpga_time_duration taking a failed fpga_time as time zero
fpga_time_duration_ret_zero_on_error(raw, status) ==
  LET time == fpga_time_ret(raw, status)
      usec == IF time[1] = "Err" THEN Width(<<>>, 8) ELSE time[2]
      sec  == Trim(DivBytes(usec, 1000000).q)
      nsec == nsec_of(usec)
  IN  IF nsec.overflow
        THEN {<<"Panic">>, Duration_new(sec, nsec.val)}
        ELSE {Duration_new(sec, nsec.val)}

\* fpga_time_duration: the outcomes the call can have
fpga_time_duration_ret(raw, status) ==
  LET time == fpga_time_ret(raw, status) IN
    IF time[1] = "Err"
      THEN {time}
      ELSE LET usec == time[2]
               sec  == Trim(DivBytes(usec, 1000000).q)
               nsec == nsec_of(usec)
           IN  IF nsec.overflow
                 THEN {<<"Panic">>, Duration_new(sec, nsec.val)}
                 ELSE {Duration_new(sec, nsec.val)}

\* user_button taking only the value 1 as pressed
user_button_ret_eq_one(raw, status) ==
  LET r == hal_call(raw, status) IN
    IF r[1] = "Err" THEN r ELSE <<"Ok", r[2] = 1>>

\* user_button: nonzero is pressed
user_button_ret(raw, status) ==
  LET r == hal_call(raw, status) IN
    IF r[1] = "Err" THEN r ELSE <<"Ok", r[2] # 0>>

\* is_browned_out: nonzero is browned out
is_browned_out_ret(raw, status) ==
  LET r == hal_call(raw, status) IN
    IF r[1] = "Err" THEN r ELSE <<"Ok", r[2] # 0>>

\* is_system_active: nonzero is active
is_system_active_ret(raw, status) ==
  LET r == hal_call(raw, status) IN
    IF r[1] = "Err" THEN r ELSE <<"Ok", r[2] # 0>>

\* battery_voltage: the HAL's f64 as it is (readings are abstract samples)
battery_voltage_ret(raw, status) == hal_call(raw, status)

\* before any accessor call
NoRead == [acc |-> "none", raw |-> 0, status |-> 0, result |-> <<"None">>]

\* an accessor call that initialises the hardware on first use
Read_claims_guard(acc, raw, status, result) ==
  /\ {t \in Threads : pc[t] = "idle"} # {}
  /\ lastRead' = [acc |-> acc, raw |-> raw, status |-> status, result |-> result]
  /\ ROBOT_INITED' = TRUE
  /\ UNCHANGED <<pc, log, handles, winner, halInitLog, halReleaseCalls,
                 usageReports, lastDs>>

\* an accessor call, by a thread that is not inside RobotBase::new, returned
\* result; the accessors are static and take no handle
Read(acc, raw, status, result) ==
  /\ {t \in Threads : pc[t] = "idle"} # {}
  /\ lastRead' = [acc |-> acc, raw |-> raw, status |-> status, result |-> result]
  /\ UNCHANGED vars

\* statuses a HAL query can report: success and a failure
HalStatuses == {0, -52010}
\* i32 / i64 / HAL_Bool / f64 readings
HalValues == {0, 1, 2}
\* the low three bytes of FPGA time readings
TimeLow == {0, 1, 999, 1000, 999999, 1000000, 1000001, 1500000, 1999999,
            2000000, 16777215}
\* the high five bytes of FPGA time readings
TimeHigh == [1..5 -> {0, 255}]
\* FPGA time readings: u64 microseconds
TimeValues == {Width(ToBytes(low), 3) \o high : low \in TimeLow, high \in TimeHigh}
\* the readings used together with the lifecycle, where the values read do
\* not matter
HalOne == {1}
TimeOne == {Width(ToBytes(1500000), 8)}

fpga_version(raw, status) ==
  Read("fpga_version", raw, status, fpga_version_ret(raw, status))

fpga_revision(raw, status) ==
  Read("fpga_revision", raw, status, fpga_revision_ret(raw, status))

fpga_time(raw, status) ==
  Read("fpga_time", raw, status, fpga_time_ret(raw, status))

fpga_time_duration(raw, status) ==
  \E result \in fpga_time_duration_ret(raw, status) :
    Read("fpga_time_duration", raw, status, result)

user_button(raw, status) ==
  Read("user_button", raw, status, user_button_ret(raw, status))

is_browned_out(raw, status) ==
  Read("is_browned_out", raw, status, is_browned_out_ret(raw, status))

is_system_active(raw, status) ==
  Read("is_system_active", raw, status, is_system_active_ret(raw, status))

battery_voltage(raw, status) ==
  Read("battery_voltage", raw, status, battery_voltage_ret(raw, status))

\* before any make_ds call
NoDs == [caller |-> 0, live |-> FALSE, created |-> <<"None", "None">>,
         outcome |-> <<"None">>]

RECURSIVE SumAttempts(_)
SumAttempts(n) == IF n = 0 THEN 0 ELSE Attempts(n) + SumAttempts(n - 1)
\* construction attempts started in the process
TotalAttempts == SumAttempts(NumThreads)

Init ==
  /\ ROBOT_INITED = FALSE
  /\ pc = [t \in Threads |-> "idle"]
  /\ log = [t \in Threads |-> <<>>]
  /\ handles = [t \in Threads |-> 0]
  /\ winner = {}
  /\ halInitLog = <<>>
  /\ halReleaseCalls = 0
  /\ usageReports = <<>>
  /\ lastRead = NoRead
  /\ lastDs = NoDs

\* New_claim making a loser wait while the winner is still inside new
New_claim_waits_for_winner(t) ==
  /\ pc[t] = "idle"
  /\ TotalAttempts < MaxAttempts
  /\ LET r == compare_and_swap(ROBOT_INITED, FALSE, TRUE) IN
       /\ ROBOT_INITED' = r.cell
       /\ winner' = IF ROBOT_INITED = FALSE /\ r.cell = TRUE
                      THEN winner \cup {t} ELSE winner
       /\ IF r.ret
            THEN IF \E u \in Threads : pc[u] \in {"hal_init", "report"}
                   THEN /\ pc' = [pc EXCEPT ![t] = "waiting"]
                        /\ log' = log
                   ELSE /\ log' = [log EXCEPT ![t] = Append(@, <<"new", "AlreadyInit">>)]
                        /\ pc' = pc
            ELSE /\ pc' = [pc EXCEPT ![t] = "hal_init"]
                 /\ log' = log
  /\ UNCHANGED <<handles, halInitLog, halReleaseCalls, usageReports, lastRead, lastDs>>

\* RobotBase::new, lines 58-60: claim the guard or return AlreadyInit
New_claim(t) ==
  /\ pc[t] = "idle"
  /\ TotalAttempts < MaxAttempts
  /\ LET r == compare_and_swap(ROBOT_INITED, FALSE, TRUE) IN
       /\ ROBOT_INITED' = r.cell
       /\ winner' = IF ROBOT_INITED = FALSE /\ r.cell = TRUE
                      THEN winner \cup {t} ELSE winner
       /\ IF r.ret
            THEN /\ log' = [log EXCEPT ![t] = Append(@, <<"new", "AlreadyInit">>)]
                 /\ pc' = pc
            ELSE /\ pc' = [pc EXCEPT ![t] = "hal_init"]
                 /\ log' = log
  /\ UNCHANGED <<handles, halInitLog, halReleaseCalls, usageReports, lastRead, lastDs>>

\* New_hal_init giving the guard back when HAL_Initialize fails
New_hal_init_rollback(t) ==
  /\ pc[t] = "hal_init"
  /\ \E ret \in HalInitReturns :
       /\ halInitLog' = Append(halInitLog,
            [caller |-> t, timeout |-> HalInitTimeout, mode |-> HalInitMode,
             claimed |-> ROBOT_INITED, ret |-> ret])
       /\ IF ret = 0
            THEN /\ log' = [log EXCEPT ![t] = Append(@, <<"new", "HalInitFailed">>)]
                 /\ pc' = [pc EXCEPT ![t] = "idle"]
                 /\ ROBOT_INITED' = FALSE
            ELSE /\ pc' = [pc EXCEPT ![t] = "report"]
                 /\ log' = log
                 /\ ROBOT_INITED' = ROBOT_INITED
  /\ UNCHANGED <<handles, winner, halReleaseCalls, usageReports, lastRead, lastDs>>

\* New_hal_init releasing the driver-station mutex when HAL_Initialize fails
New_hal_init_release_on_failure(t) ==
  /\ pc[t] = "hal_init"
  /\ \E ret \in HalInitReturns :
       /\ halInitLog' = Append(halInitLog,
            [caller |-> t, timeout |-> HalInitTimeout, mode |-> HalInitMode,
             claimed |-> ROBOT_INITED, ret |-> ret])
       /\ IF ret = 0
            THEN /\ log' = [log EXCEPT ![t] = Append(@, <<"new", "HalInitFailed">>)]
                 /\ pc' = [pc EXCEPT ![t] = "idle"]
                 /\ halReleaseCalls' = halReleaseCalls + 1
            ELSE /\ pc' = [pc EXCEPT ![t] = "report"]
                 /\ log' = log
                 /\ halReleaseCalls' = halReleaseCalls
  /\ UNCHANGED <<ROBOT_INITED, handles, winner, usageReports, lastRead, lastDs>>

\* New_hal_init going on to build the handle whatever HAL_Initialize returned
New_hal_init_unchecked(t) ==
  /\ pc[t] = "hal_init"
  /\ \E ret \in HalInitReturns :
       halInitLog' = Append(halInitLog,
            [caller |-> t, timeout |-> HalInitTimeout, mode |-> HalInitMode,
             claimed |-> ROBOT_INITED, ret |-> ret])
  /\ pc' = [pc EXCEPT ![t] = "report"]
  /\ UNCHANGED <<ROBOT_INITED, log, handles, winner, halReleaseCalls,
                 usageReports, lastRead, lastDs>>

\* RobotBase::new, lines 62-64: HAL_Initialize(500, 0), zero is failure
New_hal_init(t) ==
  /\ pc[t] = "hal_init"
  /\ \E ret \in HalInitReturns :
       /\ halInitLog' = Append(halInitLog,
            [caller |-> t, timeout |-> HalInitTimeout, mode |-> HalInitMode,
             claimed |-> ROBOT_INITED, ret |-> ret])
       /\ IF ret = 0
            THEN /\ log' = [log EXCEPT ![t] = Append(@, <<"new", "HalInitFailed">>)]
                 /\ pc' = [pc EXCEPT ![t] = "idle"]
            ELSE /\ pc' = [pc EXCEPT ![t] = "report"]
                 /\ log' = log
  /\ UNCHANGED <<ROBOT_INITED, handles, winner, halReleaseCalls, usageReports, lastRead, lastDs>>

\* New_report failing the construction when the usage report is not delivered
New_report_requires_delivery(t) ==
  /\ pc[t] = "report"
  /\ \E delivered \in BOOLEAN :
       /\ usageReports' = Append(usageReports, delivered)
       /\ IF delivered
            THEN /\ handles' = [handles EXCEPT ![t] = @ + 1]
                 /\ log' = [log EXCEPT ![t] = Append(@, <<"new", "Ok">>)]
            ELSE /\ handles' = handles
                 /\ log' = [log EXCEPT ![t] = Append(@, <<"new", "HalInitFailed">>)]
  /\ pc' = [pc EXCEPT ![t] = "idle"]
  /\ UNCHANGED <<ROBOT_INITED, winner, halInitLog, halReleaseCalls, lastRead, lastDs>>

\* RobotBase::new, lines 66-70: usage::report (result ignored), the banner,
\* Ok(RobotBase {})
New_report(t) ==
  /\ pc[t] = "report"
  /\ \E delivered \in BOOLEAN :
       usageReports' = Append(usageReports, delivered)
  /\ handles' = [handles EXCEPT ![t] = @ + 1]
  /\ log' = [log EXCEPT ![t] = Append(@, <<"new", "Ok">>)]
  /\ pc' = [pc EXCEPT ![t] = "idle"]
  /\ UNCHANGED <<ROBOT_INITED, winner, halInitLog, halReleaseCalls, lastRead, lastDs>>

\* Drop opening the guard again for the next construction
Drop_reopens_guard(t) ==
  /\ pc[t] \in {"idle", "panicked"}
  /\ handles[t] > 0
  /\ \E path \in (IF pc[t] = "panicked" THEN {"unwind"} ELSE ExitPaths) :
       log' = [log EXCEPT ![t] = Append(@, <<"drop", path>>)]
  /\ halReleaseCalls' = halReleaseCalls + 1
  /\ handles' = [handles EXCEPT ![t] = @ - 1]
  /\ ROBOT_INITED' = FALSE
  /\ UNCHANGED <<pc, winner, halInitLog, usageReports, lastRead, lastDs>>

\* Drop releasing the driver-station mutex only when the scope ends normally
Drop_release_on_normal_exit(t) ==
  /\ pc[t] \in {"idle", "panicked"}
  /\ handles[t] > 0
  /\ \E path \in (IF pc[t] = "panicked" THEN {"unwind"} ELSE ExitPaths) :
       /\ log' = [log EXCEPT ![t] = Append(@, <<"drop", path>>)]
       /\ halReleaseCalls' = halReleaseCalls + (IF path = "normal" THEN 1 ELSE 0)
  /\ handles' = [handles EXCEPT ![t] = @ - 1]
  /\ UNCHANGED <<ROBOT_INITED, pc, winner, halInitLog, usageReports, lastRead, lastDs>>

\* impl Drop for RobotBase: the scope owning the handle ends on some path (by
\* unwinding when the thread has panicked) and drop() calls HAL_ReleaseDSMutex
Drop(t) ==
  /\ pc[t] \in {"idle", "panicked"}
  /\ handles[t] > 0
  /\ \E path \in (IF pc[t] = "panicked" THEN {"unwind"} ELSE ExitPaths) :
       log' = [log EXCEPT ![t] = Append(@, <<"drop", path>>)]
  /\ halReleaseCalls' = halReleaseCalls + 1
  /\ handles' = [handles EXCEPT ![t] = @ - 1]
  /\ UNCHANGED <<ROBOT_INITED, pc, winner, halInitLog, usageReports, lastRead, lastDs>>

\* DriverStation::from_base(&RobotBase): the driver station, or the HalError
\* of the HAL call that failed
from_base(hal_ok) ==
  IF hal_ok THEN <<"Ok", "DriverStation">> ELSE <<"Err", "HalError">>

\* Result::expect: the value, or a panic
expect(r) == IF r[1] = "Ok" THEN <<"return", r[2]>> ELSE <<"panic">>

\* make_ds handing a failed creation back to its caller instead of panicking
make_ds_returns_failure(t) ==
  /\ pc[t] = "idle"
  /\ handles[t] > 0
  /\ \E hal_ok \in BOOLEAN :
       LET created == from_base(hal_ok)
       IN  lastDs' = [caller |-> t, live |-> handles[t] > 0,
                      created |-> created,
                      outcome |-> <<"return", created[2]>>]
  /\ UNCHANGED <<ROBOT_INITED, pc, log, handles, winner, halInitLog,
                 halReleaseCalls, usageReports, lastRead>>

\* RobotBase::make_ds(&self), line 81: from_base(self).expect(..); the panic
\* ends the calling thread, which then only unwinds
make_ds(t) ==
  /\ pc[t] = "idle"
  /\ handles[t] > 0
  /\ \E hal_ok \in BOOLEAN :
       LET created == from_base(hal_ok)
           outcome == expect(created)
       IN  /\ lastDs' = [caller |-> t, live |-> handles[t] > 0,
                          created |-> created, outcome |-> outcome]
           /\ pc' = IF outcome[1] = "panic"
                      THEN [pc EXCEPT ![t] = "panicked"] ELSE pc
  /\ UNCHANGED <<ROBOT_INITED, log, handles, winner, halInitLog,
                 halReleaseCalls, usageReports, lastRead>>

Next ==
  \/ \E t \in Threads : New_claim(t)
  \/ \E t \in Threads : New_hal_init(t)
  \/ \E t \in Threads : New_report(t)
  \/ \E t \in Threads : Drop(t)
  \/ \E t \in Threads : make_ds(t)
  \/ \E s \in HalStatuses, v \in HalOne : fpga_version(v, s)
  \/ \E s \in HalStatuses, v \in HalOne : fpga_revision(v, s)
  \/ \E s \in HalStatuses, v \in TimeOne : fpga_time(v, s)
  \/ \E s \in HalStatuses, v \in TimeOne : fpga_time_duration(v, s)
  \/ \E s \in HalStatuses, v \in HalOne : user_button(v, s)
  \/ \E s \in HalStatuses, v \in HalOne : is_browned_out(v, s)
  \/ \E s \in HalStatuses, v \in HalOne : is_system_active(v, s)
  \/ \E s \in HalStatuses, v \in HalOne : battery_voltage(v, s)

Spec == Init /\ [][Next]_allvars

\* construction, destruction and make_ds without the accessor calls, which
\* change nothing but lastRead
NextLifecycle ==
  \/ \E t \in Threads : New_claim(t)
  \/ \E t \in Threads : New_hal_init(t)
  \/ \E t \in Threads : New_report(t)
  \/ \E t \in Threads : Drop(t)
  \/ \E t \in Threads : make_ds(t)

\* HAL_Initialize and usage::report return, and a thread inside new goes on
\* running
FairSpec ==
  /\ Init
  /\ [][NextLifecycle]_allvars
  /\ \A t \in Threads : WF_pc(New_hal_init(t)) /\ WF_pc(New_report(t))

\* the accessors on their own, over all the readings
NextTelemetry ==
  \/ \E s \in HalStatuses, v \in HalValues : fpga_version(v, s)
  \/ \E s \in HalStatuses, v \in HalValues : fpga_revision(v, s)
  \/ \E s \in HalStatuses, v \in TimeValues : fpga_time(v, s)
  \/ \E s \in HalStatuses, v \in TimeValues : fpga_time_duration(v, s)
  \/ \E s \in HalStatuses, v \in HalValues : user_button(v, s)
  \/ \E s \in HalStatuses, v \in HalValues : is_browned_out(v, s)
  \/ \E s \in HalStatuses, v \in HalValues : is_system_active(v, s)
  \/ \E s \in HalStatuses, v \in HalValues : battery_voltage(v, s)

SpecTelemetry == Init /\ [][NextTelemetry]_allvars

\* fpga_time_duration on its own, over the wide range of readings
NextDuration ==
  \E s \in HalStatuses, v \in TimeValues : fpga_time_duration(v, s)

SpecDuration == Init /\ [][NextDuration]_allvars

\* ---- what the logs say ----
\* the positions <<t, i>> of the entries equal to e in the threads' logs
Entries(e) ==
  UNION {{<<t, i>> : i \in {j \in 1..Len(log[t]) : log[t][j] = e}} : t \in Threads}

NumOk == Cardinality(Entries(<<"new", "Ok">>))
NumAlreadyInit == Cardinality(Entries(<<"new", "AlreadyInit">>))
NumHalInitFailed == Cardinality(Entries(<<"new", "HalInitFailed">>))
NumDrops == Cardinality(UNION {Entries(<<"drop", p>>) : p \in ExitPaths})

\* some construction attempt has returned Ok
Constructed == NumOk > 0

\* in this step thread t's construction attempt returns r
Returns(t, r) == log'[t] = Append(log[t], <<"new", r>>)

\* in this step thread t's construction attempt returns
Returning(t) == \E r \in {"Ok", "AlreadyInit", "HalInitFailed"} : Returns(t, r)

RECURSIVE SumHandles(_, _)
SumHandles(h, n) == IF n = 0 THEN 0 ELSE h[n] + SumHandles(h, n - 1)
\* handles live in the process
LiveHandles == SumHandles(handles, NumThreads)

\* every call of HAL_Initialize so far reported success
HalInitSucceeds == \A i \in 1..Len(halInitLog) : halInitLog[i].ret # 0

\* C1: when every thread has made at least one construction attempt, all
\* attempts have returned and HAL_Initialize reported success, exactly one
\* attempt has returned Ok and every other attempt has returned AlreadyInit.
C1_ExactlyOneOk ==
  ((\A t \in Threads : pc[t] = "idle" /\ Attempts(t) >= 1) /\ HalInitSucceeds)
    => /\ NumOk = 1
       /\ NumHalInitFailed = 0
       /\ \A t \in Threads : \A i \in 1..Len(log[t]) :
            log[t][i][1] = "new" /\ <<t, i>> \notin Entries(<<"new", "Ok">>)
              => log[t][i] = <<"new", "AlreadyInit">>

\* every thread has attempted, one got the handle, the others AlreadyInit
C1_Witness ==
  /\ \A t \in Threads : pc[t] = "idle" /\ Attempts(t) >= 1
  /\ NumOk = 1
  /\ NumAlreadyInit >= NumThreads - 1
  /\ \E t \in Threads : log[t] = << <<"new", "AlreadyInit">> >>

\* C2: once a construction attempt has returned Ok, every construction attempt
\* that returns afterwards returns AlreadyInit, also after the handle's drop.
C2_LaterAttemptsAlreadyInit ==
  [][\A t \in Threads :
       (Constructed /\ Returning(t)) => Returns(t, "AlreadyInit")]_allvars

\* a thread got the handle, dropped it and was then refused
C2_Witness ==
  \E t \in Threads, p \in ExitPaths :
    log[t] = << <<"new", "Ok">>, <<"drop", p>>, <<"new", "AlreadyInit">> >>

\* C3: the step in which HAL_Initialize returns zero returns HalInitFailed to
\* its caller and leaves the guard claimed; from then on the guard stays
\* claimed and every attempt that returns returns AlreadyInit; HalInitFailed is
\* returned at most once.
C3_HalInitFailedOnce ==
  [][/\ (Len(halInitLog') > Len(halInitLog) /\ halInitLog'[Len(halInitLog')].ret = 0)
          => /\ Returns(halInitLog'[Len(halInitLog')].caller, "HalInitFailed")
             /\ ROBOT_INITED'
     /\ ~HalInitSucceeds
          => /\ ROBOT_INITED'
             /\ \A t \in Threads : Returning(t) => Returns(t, "AlreadyInit")
     /\ NumHalInitFailed' <= 1]_allvars

\* HAL_Initialize failed for one thread and a later attempt was refused
C3_Witness ==
  /\ NumHalInitFailed = 1
  /\ ROBOT_INITED
  /\ \E t \in Threads :
       log[t] = << <<"new", "HalInitFailed">>, <<"new", "AlreadyInit">> >>

\* C4: every handle returned by a construction is destroyed at most once, and
\* the destructions so far, on whichever exit path, have made exactly one
\* HAL_ReleaseDSMutex call each.
C4_OneReleasePerDrop ==
  /\ halReleaseCalls = NumDrops
  /\ \A t \in Threads :
       /\ handles[t] >= 0
       /\ handles[t] + Cardinality({i \in 1..Len(log[t]) : log[t][i][1] = "drop"})
            = Cardinality({i \in 1..Len(log[t]) : log[t][i] = <<"new", "Ok">>})

\* a handle was destroyed by unwinding and the mutex released once
C4_Witness ==
  /\ halReleaseCalls = 1
  /\ LiveHandles = 0
  /\ \E t \in Threads :
       Len(log[t]) > 0 /\ log[t][Len(log[t])] = <<"drop", "unwind">>

\* C5: at most one handle is live, and a thread's handle count grows only in
\* a step of a thread that made the guard's false-to-true transition and
\* whose HAL_Initialize call returned nonzero.
C5_OneHandleFromWinner ==
  [][/\ LiveHandles <= 1
     /\ SumHandles(handles', NumThreads) <= 1
     /\ \A t \in Threads :
          handles'[t] > handles[t]
            => /\ t \in winner
               /\ \E i \in 1..Len(halInitLog) :
                    halInitLog[i].caller = t /\ halInitLog[i].ret # 0
               /\ \A i \in 1..Len(halInitLog) :
                    halInitLog[i].caller = t => halInitLog[i].ret # 0]_allvars

\* the winner holds the one handle while another thread has been refused
C5_Witness ==
  /\ LiveHandles = 1
  /\ \E t \in Threads : handles[t] = 1 /\ t \in winner
  /\ NumAlreadyInit >= 1

\* C6: HAL_Initialize has been called at most once, by a thread that made the
\* guard's false-to-true transition, with the guard already claimed, and with
\* the arguments (500, 0); a thread that lost the claim has not called it.
C6_HalInitOnlyByWinner ==
  /\ Len(halInitLog) <= 1
  /\ \A i \in 1..Len(halInitLog) :
       /\ halInitLog[i].caller \in winner
       /\ halInitLog[i].claimed
       /\ halInitLog[i].timeout = 500
       /\ halInitLog[i].mode = 0
  /\ \A t \in Threads :
       t \notin winner => \A i \in 1..Len(halInitLog) : halInitLog[i].caller # t

\* HAL_Initialize was called once while a loser has returned AlreadyInit
C6_Witness ==
  /\ Len(halInitLog) = 1
  /\ \E t \in Threads :
       /\ t \notin winner
       /\ Len(log[t]) >= 1
       /\ log[t][1] = <<"new", "AlreadyInit">>

\* this step is an accessor call (one that does not repeat the latest call)
AccessorStep ==
  \/ lastRead'.acc # lastRead.acc
  \/ lastRead'.status # lastRead.status
  \/ lastRead'.acc = lastRead.acc /\ lastRead'.raw # lastRead.raw
  \/ lastRead'.result[1] # lastRead.result[1]

\* the accessors of HAL_Bool queries
BoolAccessors == {"user_button", "is_browned_out", "is_system_active"}

\* the u64 value 1_500_000
Usec1500000 == Width(ToBytes(1500000), 8)

\* C7: when fpga_time read u, fpga_time_duration returns a duration (it does
\* not overflow) with nanoseconds below 1_000_000_000 and a multiple of 1000
\* and seconds * 1_000_000_000 + nanoseconds = u * 1000, which makes the
\* seconds u div 1_000_000 and the nanoseconds (u mod 1_000_000) * 1000;
\* u = 1_500_000 gives 1 s 500_000_000 ns and u = 0 the zero duration.
C7_DurationOfMicros ==
  (lastRead.acc = "fpga_time_duration" /\ lastRead.status = 0)
    => /\ lastRead.result[1] = "Ok"
       /\ LET d == lastRead.result[2] IN
            /\ d.nanos >= 0
            /\ d.nanos < 1000000000
            /\ d.nanos % 1000 = 0
            /\ Trim(AddBytes(MulBytes(MulBytes(d.secs, 1000, 0), 1000000, 0),
                             ToBytes(d.nanos), 0))
                 = Trim(MulBytes(lastRead.raw, 1000, 0))
            /\ lastRead.raw = Usec1500000 => d = [secs |-> <<1>>, nanos |-> 500000000]
            /\ Trim(lastRead.raw) = <<>> => d = [secs |-> <<>>, nanos |-> 0]

\* fpga_time read 1_500_000 and fpga_time_duration returned a duration
C7_Witness ==
  /\ lastRead.acc = "fpga_time_duration"
  /\ lastRead.status = 0
  /\ lastRead.raw = Usec1500000
  /\ lastRead.result[1] = "Ok"

\* C8: every accessor call returns Ok exactly when the HAL reported status
\* zero and otherwise Err with the HAL's status; user_button, is_browned_out and
\* is_system_active return Ok(TRUE) exactly when the HAL's value is nonzero.
C8_TypedResult ==
  lastRead.acc # "none"
    => /\ lastRead.result[1] \in {"Ok", "Err"}
       /\ lastRead.result[1] = "Ok" <=> lastRead.status = 0
       /\ lastRead.result[1] = "Err" => lastRead.result[2] = lastRead.status
       /\ (lastRead.acc \in BoolAccessors /\ lastRead.status = 0)
            => /\ lastRead.result[2] \in BOOLEAN
               /\ lastRead.result[2] <=> lastRead.raw # 0

\* user_button saw a nonzero value other than 1 and returned Ok(TRUE)
C8_Witness ==
  /\ lastRead.acc = "user_button"
  /\ lastRead.status = 0
  /\ lastRead.raw = 2
  /\ lastRead.result = <<"Ok", TRUE>>

\* C9: a step that is an accessor call leaves the guard, the handles, the
\* calls of HAL_Initialize and the calls of HAL_ReleaseDSMutex as they were.
C9_AccessorsReadOnly ==
  [][AccessorStep
       => UNCHANGED <<ROBOT_INITED, handles, halInitLog, halReleaseCalls>>]_allvars

\* an accessor was called while a handle is live, after another thread's
\* construction attempt was refused
C9_Witness ==
  /\ lastRead.acc # "none"
  /\ LiveHandles = 1
  /\ NumAlreadyInit >= 1

\* C10: an accessor call made while no construction attempt has returned Ok
\* returns an error.
C10_ErrorBeforeConstruction ==
  [][(AccessorStep /\ ~Constructed) => lastRead'.result[1] = "Err"]_allvars

\* C11: make_ds is called on a live handle, and it either returns the driver
\* station that was created or, when the creation failed, panics and ends the
\* calling thread; it never returns after a failed creation.
C11_MakeDsSessionOrPanic ==
  lastDs.outcome[1] # "None"
    => /\ lastDs.live
       /\ lastDs.outcome[1] \in {"return", "panic"}
       /\ lastDs.created[1] = "Err"
            => lastDs.outcome[1] = "panic" /\ pc[lastDs.caller] = "panicked"
       /\ lastDs.outcome[1] = "return"
            => /\ lastDs.created[1] = "Ok"
               /\ lastDs.outcome[2] = "DriverStation"
               /\ lastDs.outcome[2] = lastDs.created[2]

\* the driver-station creation failed under make_ds and the caller panicked
C11_Witness ==
  /\ lastDs.created[1] = "Err"
  /\ lastDs.outcome[1] = "panic"
  /\ pc[lastDs.caller] = "panicked"

\* C12: the usage report is made at most once, only after a HAL_Initialize
\* call that returned nonzero, and every report made, delivered or not, comes
\* with an Ok return: there are as many reports as Ok returns, so none is made
\* on an AlreadyInit or HalInitFailed path and none fails the construction.
C12_UsageReportBestEffort ==
  /\ Len(usageReports) <= 1
  /\ Len(usageReports) = NumOk
  /\ Len(usageReports)
       <= Cardinality({i \in 1..Len(halInitLog) : halInitLog[i].ret # 0})

\* the usage report was not delivered and the construction returned Ok
C12_Witness ==
  /\ usageReports = <<FALSE>>
  /\ NumOk = 1
  /\ LiveHandles = 1

\* C13: the guard starts false, no step takes it from true to false, and at
\* most one thread has ever made its false-to-true transition.
C13_GuardMonotonic ==
  /\ ROBOT_INITED = FALSE
  /\ [](Cardinality(winner) <= 1)
  /\ [][ROBOT_INITED => ROBOT_INITED']_allvars

\* the guard is still claimed after a make_ds call, an accessor call and the
\* drop of the handle
C13_Witness ==
  /\ ROBOT_INITED
  /\ NumDrops = 1
  /\ LiveHandles = 0
  /\ lastDs.outcome[1] = "return"
  /\ lastRead.acc # "none"

\* C14 as stated: once an attempt has returned AlreadyInit, the guard is
\* claimed and the winning attempt's HAL_Initialize call has completed.
C14_AlreadyInitAfterHalInit ==
  NumAlreadyInit > 0 => ROBOT_INITED /\ Len(halInitLog) >= 1

\* C14 as amended: in the step in which an attempt returns AlreadyInit the
\* guard was already claimed, by exactly one thread, and stays claimed, that
\* step calls no HAL_Initialize, and every HAL_Initialize call so far was made
\* with the guard claimed; the winner's call need not have completed.
C14_AlreadyInitAfterClaim ==
  [][\A t \in Threads :
       Returns(t, "AlreadyInit")
         => /\ ROBOT_INITED
            /\ ROBOT_INITED'
            /\ Cardinality(winner) = 1
            /\ halInitLog' = halInitLog
            /\ \A i \in 1..Len(halInitLog) : halInitLog[i].claimed]_allvars

\* an attempt has returned AlreadyInit while the winner has not yet called
\* HAL_Initialize
C14_Witness ==
  /\ NumAlreadyInit > 0
  /\ halInitLog = <<>>
  /\ \E t \in Threads : pc[t] = "hal_init" /\ winner = {t}

\* C15: when the HAL query behind fpga_time reports a failure status,
\* fpga_time_duration returns the HalError fpga_time returns for it and no
\* duration; it returns Ok only when fpga_time returns Ok.
C15_DurationPropagatesError ==
  lastRead.acc = "fpga_time_duration"
    => LET time == fpga_time_ret(lastRead.raw, lastRead.status) IN
         /\ lastRead.status # 0
              => /\ lastRead.result[1] = "Err"
                 /\ time[1] = "Err"
                 /\ lastRead.result[2] = time[2]
                 /\ lastRead.result[2] = lastRead.status
         /\ lastRead.result[1] = "Ok" => time[1] = "Ok" /\ lastRead.status = 0

\* fpga_time failed with a status and fpga_time_duration returned that error
C15_Witness ==
  /\ lastRead.acc = "fpga_time_duration"
  /\ lastRead.status = -52010
  /\ lastRead.result[1] = "Err"
  /\ lastRead.result[2] = -52010

\* thread t is inside RobotBase::new
InNew(t) == pc[t] \notin {"idle", "panicked"}

\* C16: only the thread that won the claim is ever inside new past its
\* compare_and_swap, so a losing attempt has returned in that one step of its
\* own whatever the winner is doing; an attempt that leaves new returns one
\* result; and, HAL_Initialize returning, every attempt inside new returns.
C16_AttemptsReturn ==
  /\ [](\A t \in Threads : InNew(t) => t \in winner)
  /\ [][\A t \in Threads : (InNew(t) /\ pc'[t] = "idle") => Returning(t)]_allvars
  /\ \A t \in Threads : InNew(t) ~> pc[t] = "idle"

\* two attempts of another thread have been refused while the winner is
\* still inside HAL_Initialize
C16_Witness ==
  \E t \in Threads, u \in Threads :
    /\ t # u
    /\ pc[t] = "hal_init"
    /\ log[u] = << <<"new", "AlreadyInit">>, <<"new", "AlreadyInit">> >>

\* C17: HAL_ReleaseDSMutex has been called at most as often as constructions
\* have returned Ok, hence at most once, and only after a HAL_Initialize call
\* that returned nonzero; a step in which an attempt returns AlreadyInit or
\* HalInitFailed makes no release call.
C17_ReleaseAfterInit ==
  /\ [](/\ halReleaseCalls <= NumOk
        /\ halReleaseCalls <= 1
        /\ halReleaseCalls > 0
             => \E i \in 1..Len(halInitLog) : halInitLog[i].ret # 0)
  /\ [][\A t \in Threads :
          (Returns(t, "AlreadyInit") \/ Returns(t, "HalInitFailed"))
            => halReleaseCalls' = halReleaseCalls]_allvars

\* the one handle was dropped and released after attempts were refused
C17_Witness ==
  /\ halReleaseCalls = 1
  /\ NumOk = 1
  /\ NumAlreadyInit = 2
  /\ \E i \in 1..Len(halInitLog) : halInitLog[i].ret # 0

\* thread t has a HAL_Initialize call that returned nonzero and has not yet
\* been answered with an Ok return
PendingInit(t) ==
  Cardinality({i \in 1..Len(halInitLog) :
                 halInitLog[i].caller = t /\ halInitLog[i].ret # 0})
    > Cardinality({i \in 1..Len(log[t]) : log[t][i] = <<"new", "Ok">>})

\* C18: while a handle is live the guard is claimed and a HAL_Initialize call
\* has returned nonzero; and an attempt that returns returns Ok exactly when
\* its thread made the guard's transition and its HAL_Initialize call returned
\* nonzero.
C18_HandleMeansInitialised ==
  /\ [](LiveHandles > 0
          => /\ ROBOT_INITED
             /\ \E i \in 1..Len(halInitLog) : halInitLog[i].ret # 0)
  /\ [][\A t \in Threads :
          Returning(t)
            => (Returns(t, "Ok") <=> (t \in winner /\ PendingInit(t)))]_allvars

\* the thread that made the transition and whose HAL_Initialize returned 1
\* holds the handle
C18_Witness ==
  \E t \in Threads :
    /\ handles[t] = 1
    /\ winner = {t}
    /\ Len(halInitLog) = 1
    /\ halInitLog[1].caller = t
    /\ halInitLog[1].ret = 1
    /\ log[t][1] = <<"new", "Ok">>
====
